---- MODULE Spec2Model ----
(***************************************************************************)
(* simpleRT: a recursive Whitted-style ray tracer (RT_trace_ray), its      *)
(* frame renderer (RT_render_scene) and the render engine's row loop       *)
(* (SimpleRTRenderEngine.render_scene).                                    *)
(*                                                                         *)
(* Spec       one top-level call of RT_trace_ray as a call-stack machine;  *)
(*            every ray_cast is answered by a nondeterministic oracle.     *)
(* RenderSpec render_scene driving the RT_render_scene generator.          *)
(*                                                                         *)
(* Numbers are exact rationals <<n, d>> with d > 0, kept in lowest terms.  *)
(***************************************************************************)
EXTENDS Integers, Sequences, FiniteSets, TLC

\* ------------------------------------------------------------------ bounds
MaxDepth == 1
MaxLights == 1
MaxWidth == 2
MaxHeight == 3

\* ------------------------------------------------------- exact arithmetic
Abs(n) == IF n < 0 THEN -n ELSE n

RECURSIVE GCD(_, _)
GCD(a, b) == IF b = 0 THEN a ELSE GCD(b, a % b)

\* the rational n/d (d # 0) in lowest terms with a positive denominator
Rat(n, d) ==
    LET s == IF d < 0 THEN -1 ELSE 1
        g == GCD(Abs(n), Abs(d))
    IN  <<(s * n) \div g, (s * d) \div g>>

RZero == <<0, 1>>
ROne == <<1, 1>>
RAdd(a, b) == Rat(a[1] * b[2] + b[1] * a[2], a[2] * b[2])
RNeg(a) == <<-a[1], a[2]>>
RSub(a, b) == RAdd(a, RNeg(b))
RMul(a, b) == Rat(a[1] * b[1], a[2] * b[2])
RDiv(a, b) == Rat(a[1] * b[2], a[2] * b[1])
RAbs(a) == <<Abs(a[1]), a[2]>>
RNonNeg(a) == a[1] >= 0
RPos(a) == a[1] > 0

\* the numerator of a rational that is a multiple of 1/2, over 2
Halves(a) == (2 * a[1]) \div a[2]

RECURSIVE RPow(_, _)
RPow(a, k) == IF k = 0 THEN ROne ELSE RMul(a, RPow(a, k - 1))

\* RGB triples (np.zeros(3), Vector.xyz)
Zero3 == <<RZero, RZero, RZero>>
CAdd(a, b) == [i \in 1..3 |-> RAdd(a[i], b[i])]
CMul(a, b) == [i \in 1..3 |-> RMul(a[i], b[i])]
CScale(r, c) == [i \in 1..3 |-> RMul(r, c[i])]
CNonNeg(c) == \A i \in 1..3 : RNonNeg(c[i])

\* ------------------------------------------------------------ scene inputs
Half == Rat(1, 2)

\* simpleRT_material property groups the oracle can hand back with a hit
Mirror ==
    [diffuse_color |-> <<Half, Half, Half>>, specular_color |-> <<ROne, ROne, ROne>>,
     specular_hardness |-> 1, mirror_reflectivity |-> Half,
     use_fresnel |-> FALSE, ior |-> ROne, transmission |-> RZero]
Glass ==
    [diffuse_color |-> <<RZero, Half, ROne>>, specular_color |-> Zero3,
     specular_hardness |-> 0, mirror_reflectivity |-> ROne,
     use_fresnel |-> TRUE, ior |-> Rat(2, 1), transmission |-> ROne]
Film ==
    [diffuse_color |-> <<ROne, RZero, RZero>>, specular_color |-> Zero3,
     specular_hardness |-> 0, mirror_reflectivity |-> RZero,
     use_fresnel |-> FALSE, ior |-> ROne, transmission |-> Half]
Materials == {Mirror, Glass, Film}

\* scene.simpleRT.ambient_color
AmbientColors == {<<Half, Half, ROne>>}
\* light.data.simpleRT_light.color * energy
LightColors == {<<ROne, ROne, Half>>}
\* light_vec.length_squared
LengthsSquared == {4}

\* what a primary, reflection or transmission ray can hit: the material and
\* hit_norm.dot(ray_dir) as the oracle returns the normal, in halves
\* (-2: head-on from outside, 0: grazing, 1: from inside at 60 degrees)
Hits == {<<Mirror, -2>>, <<Glass, -2>>, <<Glass, 1>>, <<Film, 0>>}
\* light_dir.dot(hit_norm) after the flip, in halves
LightDots == {-1, 2}
\* |light_dir - ray_dir|, the norm that makes the half vector a unit vector;
\* light_dir.dot(ray_dir) = 1 - norm^2/2, so norm 1 and norm 2 are the rational cases
HalfNorms == {1, 2}

\* unit vectors n, d, l with n.d = -c/2, n.l = a/2, d.l = 1 - s^2/2 exist in
\* 3-space iff their Gram determinant is non-negative (times 4, in integers)
Realisable(c, a, s) ==
    LET e == 2 - s * s
    IN  4 - c * a * e - c * c - a * a - e * e >= 0

\* ------------------------------------------------------------------ state
VARIABLES
    lights,     \* RT_trace_ray: the light list, each entry color * energy
    ambient,    \* scene.simpleRT.ambient_color
    scene,      \* what ray_cast answers, by generation of the ray (0 = primary)
    stack,      \* the activation records of RT_trace_ray, innermost last
    ret,        \* the value the call that returned last handed to its caller
    ncalls,     \* RT_trace_ray invocations so far (one primary ray_cast each)
    size,       \* render_scene: <<width, height>> = <<size_x, size_y>>
    shader,     \* which pure function of the pixel RT_trace_ray is for this scene
    buf,        \* the RGBA buffer: buf[y + 1][x + 1] is the source's buf[y, x]
    rpc,        \* where render_scene stands
    row,        \* the RT_render_scene generator's loop variable y
    rect,       \* layer.rect, the pixels handed to the host
    emitted,    \* the row indices the generator has yielded, in order
    written,    \* the pixels assigned so far, in order of assignment
    calls       \* how often update_progress, test_break and end_result ran

traceVars == <<lights, ambient, scene, stack, ret, ncalls>>
renderVars == <<size, shader, buf, rpc, row, rect, emitted, written, calls>>
vars == <<traceVars, renderVars>>

\* -------------------------------------------------- RT_trace_ray, shading
\* one unoccluded light's Blinn-Phong term; a, s and c as in Realisable
LightTerm(mat, light_color, len2, a, s, c) ==
    LET I_light == CScale(Rat(1, len2), light_color)
        ndotl == Rat(a, 2)
        ndoth == Rat(a + c, 2 * s)
        diffuse_component == CScale(ndotl, CMul(mat.diffuse_color, I_light))
        specular_component ==
            CScale(RPow(ndoth, mat.specular_hardness), CMul(mat.specular_color, I_light))
    IN  CAdd(diffuse_component, specular_component)

\* mutant: the ambient term without the diffuse colour
I_ambient_plain(mat, ambient_color) == ambient_color
I_ambient(mat, ambient_color) == CMul(mat.diffuse_color, ambient_color)

\* k_r: mirror_reflectivity, or Schlick's approximation under use_fresnel
Reflectivity(mat, cosi) ==
    IF mat.use_fresnel
    THEN LET R_0 == RPow(RDiv(RSub(ROne, mat.ior), RAdd(ROne, mat.ior)), 2)
             theta == RAbs(RNeg(cosi))
         IN  RAdd(R_0, RMul(RSub(ROne, R_0), RPow(RSub(ROne, theta), 5)))
    ELSE mat.mirror_reflectivity

\* mutant: the refractive indices taken the wrong way round
n_ratio_swapped(mat, inside) ==
    IF inside THEN RDiv(ROne, mat.ior) ELSE RDiv(mat.ior, ROne)
n_ratio(mat, inside) == IF inside THEN RDiv(mat.ior, ROne) ELSE RDiv(ROne, mat.ior)

cos_theta_t2(mat, inside, cosi) ==
    LET r == n_ratio(mat, inside)
    IN  RSub(ROne, RMul(RPow(r, 2), RSub(ROne, RPow(cosi, 2))))

\* mutants: the depth test dropped, and off by one
ReflectGuard_always(depth) == TRUE
ReflectGuard_nonneg(depth) == depth >= 0

\* the guards of the two recursive branches
ReflectGuard(depth) == depth > 0
TransmitGuard(mat, inside, cosi) ==
    /\ RPos(mat.transmission)
    /\ RNonNeg(cos_theta_t2(mat, inside, cosi))

\* mutant: the depth handed on unchanged
ChildDepth_same(depth) == depth

\* the depth argument of a recursive call
ChildDepth(depth) == depth - 1

\* ------------------------------------------------ RT_trace_ray, call stack
NoMat == [diffuse_color |-> Zero3, specular_color |-> Zero3,
          specular_hardness |-> 0, mirror_reflectivity |-> RZero,
          use_fresnel |-> FALSE, ior |-> ROne, transmission |-> RZero]

\* mutant: a pixel that does not start black
InitialColor_grey == <<Half, Half, Half>>

\* color = np.zeros(3)
InitialColor == Zero3

\* a fresh activation record: the call has been made, nothing has run yet
NewFrame(depth) ==
    [depth |-> depth, pc |-> "entry", mat |-> NoMat, inside |-> FALSE,
     cosi |-> RZero, color |-> InitialColor, li |-> 1, no_light_hit |-> TRUE,
     reflectivity |-> RZero, nshadow |-> 0, nreflect |-> 0, ntransmit |-> 0]

NoRet == [valid |-> FALSE]

\* what a finished call leaves behind: its result and what it did
Returned(f, has_hit, color, ambient_added, transmit_color) ==
    [valid |-> TRUE, color |-> color, depth |-> f.depth, has_hit |-> has_hit,
     mat |-> f.mat, inside |-> f.inside, cosi |-> f.cosi,
     no_light_hit |-> f.no_light_hit, nshadow |-> f.nshadow,
     nreflect |-> f.nreflect, ntransmit |-> f.ntransmit,
     ambient_added |-> ambient_added, transmit_added |-> transmit_color]

Top == stack[Len(stack)]
Pop == SubSeq(stack, 1, Len(stack) - 1)
SetTop(f) == [stack EXCEPT ![Len(stack)] = f]

Return(f, has_hit, color, ambient_added, transmit_color) ==
    /\ stack' = Pop
    /\ ret' = Returned(f, has_hit, color, ambient_added, transmit_color)
    /\ UNCHANGED ncalls

Call(f, depth) ==
    /\ stack' = Append(SetTop(f), NewFrame(depth))
    /\ ret' = NoRet
    /\ ncalls' = ncalls + 1

\* ray_cast: the oracle is a function of the scene and the ray.  The rays of
\* one generation are answered alike, and an answer is fixed the first time it
\* is asked for; every combination of answers is explored.
Unasked == [asked |-> FALSE]
Level == Len(stack) - 1

PrimaryAnswers ==
    {[asked |-> TRUE, has_hit |-> FALSE]} \cup
    {[asked |-> TRUE, has_hit |-> TRUE, mat |-> h[1], nd |-> h[2]] : h \in Hits}

ShadowAnswers(c) ==
    {[asked |-> TRUE, has_hit |-> TRUE]} \cup
    {[asked |-> TRUE, has_hit |-> FALSE, a |-> g[1], s |-> g[2], len2 |-> len2] :
        g \in {x \in LightDots \X HalfNorms : Realisable(c, x[1], x[2])},
        len2 \in LengthsSquared}

ray_cast(old, answers, r) == r \in answers /\ (old.asked => r = old)

\* lines 77-113: the primary ray_cast, the no-hit return, the normal flip
Entry ==
    /\ stack # <<>>
    /\ Top.pc = "entry"
    /\ \E r \in PrimaryAnswers :
          /\ ray_cast(scene[Level].primary, PrimaryAnswers, r)
          /\ scene' = [scene EXCEPT ![Level].primary = r]
          /\ IF ~r.has_hit
             THEN Return(Top, FALSE, Top.color, FALSE, Zero3)
             ELSE /\ stack' = SetTop([Top EXCEPT !.pc = "lights", !.mat = r.mat,
                                          !.inside = (r.nd > 0),
                                          !.cosi = Rat(Abs(r.nd), 2)])
                  /\ UNCHANGED <<ret, ncalls>>
    /\ UNCHANGED <<lights, ambient, renderVars>>

\* lines 116-206: one iteration of the light loop, its shadow ray_cast included
ShadowRay ==
    /\ stack # <<>>
    /\ Top.pc = "lights"
    /\ Top.li <= Len(lights)
    /\ \E r \in ShadowAnswers(Halves(Top.cosi)) :
          LET f == [Top EXCEPT !.li = @ + 1, !.nshadow = @ + 1]
          IN  /\ ray_cast(scene[Level].shadow[Top.li], ShadowAnswers(Halves(Top.cosi)), r)
              /\ scene' = [scene EXCEPT ![Level].shadow[Top.li] = r]
              /\ IF r.has_hit
                 THEN stack' = SetTop(f)
                 ELSE stack' = SetTop([f EXCEPT
                            !.color = CAdd(@, LightTerm(Top.mat, lights[Top.li], r.len2,
                                                        r.a, r.s, Halves(Top.cosi))),
                            !.no_light_hit = FALSE])
    /\ UNCHANGED <<lights, ambient, ret, ncalls, renderVars>>

\* lines 216-222: no light contributed
AmbientReturn ==
    /\ stack # <<>>
    /\ Top.pc = "lights"
    /\ Top.li > Len(lights)
    /\ Top.no_light_hit
    /\ Return(Top, TRUE, CAdd(Top.color, I_ambient(Top.mat, ambient)), TRUE, Zero3)
    /\ UNCHANGED <<lights, ambient, scene, renderVars>>

\* lines 231-262 and 296: reflectivity, then the reflection call or the return
Reflect ==
    /\ stack # <<>>
    /\ Top.pc = "lights"
    /\ Top.li > Len(lights)
    /\ ~Top.no_light_hit
    /\ LET f == [Top EXCEPT !.reflectivity = Reflectivity(Top.mat, Top.cosi)]
       IN  IF ReflectGuard(Top.depth)
           THEN Call([f EXCEPT !.pc = "reflected", !.nreflect = @ + 1],
                     ChildDepth(Top.depth))
           ELSE Return(f, TRUE, f.color, FALSE, Zero3)
    /\ UNCHANGED <<lights, ambient, scene, renderVars>>

\* lines 262-290 and 296: the reflection is back; transmission call or return
Transmit ==
    /\ stack # <<>>
    /\ Top.pc = "reflected"
    /\ ret.valid
    /\ LET f == [Top EXCEPT !.color = CAdd(@, CScale(Top.reflectivity, ret.color))]
       IN  IF TransmitGuard(Top.mat, Top.inside, Top.cosi)
           THEN Call([f EXCEPT !.pc = "transmitted", !.ntransmit = @ + 1],
                     ChildDepth(Top.depth))
           ELSE Return(f, TRUE, f.color, FALSE, Zero3)
    /\ UNCHANGED <<lights, ambient, scene, renderVars>>

\* lines 289-296: the transmission is back
Finish ==
    /\ stack # <<>>
    /\ Top.pc = "transmitted"
    /\ ret.valid
    /\ LET t == CScale(RMul(RSub(ROne, Top.reflectivity), Top.mat.transmission),
                       ret.color)
       IN  Return(Top, TRUE, CAdd(Top.color, t), FALSE, t)
    /\ UNCHANGED <<lights, ambient, scene, renderVars>>

Done == stack = <<>> /\ ret.valid

LightLists ==
    UNION {[1..n -> LightColors] : n \in 0..MaxLights}

\* ------------------------------------- RT_render_scene and render_scene
\* the pixel budget between two updates of the render result
UpdatePixels == 10000

Widths == 1..MaxWidth \cup {UpdatePixels + 1}
Heights == 1..MaxHeight
Shaders == {0, 1}

width == size[1]
height == size[2]

\* RT_trace_ray(scene, cam_location, ray_dir, scene_lights, depth) for the ray
\* through pixel <<y, x>>: black where the ray escapes, a shaded colour elsewhere
TracePixel(k, y, x) ==
    IF (x + y) % 2 = k THEN Zero3 ELSE <<Half, ROne, Rat(3, 2)>>

\* np.zeros((height, width, 4))
Zeros == [y \in 1..height |-> [x \in 1..width |-> [rgb |-> Zero3, a |-> 0]]]

\* int(10000 / width)
update_cycle == UpdatePixels \div width

\* mutant: the inner loop running right to left
RowOrder_reversed(y) == [i \in 1..width |-> <<y, width - i>>]

\* the pixels of row y in the order the inner loop visits them
RowOrder(y) == [i \in 1..width |-> <<y, i - 1>>]

\* lines 338-351 for every x of row y
WriteRow(b, y) ==
    [b EXCEPT ![y + 1] =
        [x \in 1..width |-> [rgb |-> TracePixel(shader, y, x - 1), a |-> 1]]]

\* buf.reshape(-1, 4).tolist()
Flat(b) ==
    [i \in 1..(width * height) |-> b[((i - 1) \div width) + 1][((i - 1) % width) + 1]]

\* the row after which the handler refreshes layer.rect
UpdatesResult(y) == y % update_cycle = 0 \/ y = height - 1

Idle ==
    /\ size = <<1, 1>>
    /\ shader = 0
    /\ buf = Zeros
    /\ rpc = "idle"
    /\ row = 0
    /\ rect = <<>>
    /\ emitted = <<>>
    /\ written = <<>>
    /\ calls = [update_progress |-> 0, test_break |-> 0, end_result |-> 0]

\* lines 335-352: the generator is resumed and runs to its next yield
RenderRow ==
    /\ rpc = "next"
    /\ row < height
    /\ buf' = WriteRow(buf, row)
    /\ written' = written \o RowOrder(row)
    /\ emitted' = Append(emitted, row)
    /\ rpc' = "yielded"
    /\ UNCHANGED <<size, shader, row, rect, calls, traceVars>>

\* line 353: the generator is resumed after its last row and returns
Exhausted ==
    /\ rpc = "next"
    /\ row >= height
    /\ rpc' = "end"
    /\ UNCHANGED <<size, shader, buf, row, rect, emitted, written, calls, traceVars>>

\* lines 409-431: the loop body of render_scene for the yielded row
HandleRow ==
    /\ rpc = "yielded"
    /\ \E esc \in BOOLEAN :
          IF update_cycle = 0
          THEN \* y % update_cycle raises ZeroDivisionError
               /\ rpc' = "error"
               /\ calls' = [calls EXCEPT !.update_progress = @ + 1]
               /\ UNCHANGED <<rect, row>>
          ELSE /\ rect' = IF UpdatesResult(row) THEN Flat(buf) ELSE rect
               /\ calls' = [calls EXCEPT !.update_progress = @ + 1,
                                         !.test_break = @ + 1]
               /\ IF esc
                  THEN rpc' = "end" /\ UNCHANGED row
                  ELSE rpc' = "next" /\ row' = row + 1
    /\ UNCHANGED <<size, shader, buf, emitted, written, traceVars>>

\* line 434
EndResult ==
    /\ rpc = "end"
    /\ rpc' = "done"
    /\ calls' = [calls EXCEPT !.end_result = @ + 1]
    /\ UNCHANGED <<size, shader, buf, row, rect, emitted, written, traceVars>>

\* ------------------------------------------------------- specifications
Init ==
    /\ lights \in LightLists
    /\ ambient \in AmbientColors
    /\ scene = [g \in 0..MaxDepth |->
                  [primary |-> Unasked, shadow |-> [i \in 1..Len(lights) |-> Unasked]]]
    /\ \E d \in 0..MaxDepth : stack = <<NewFrame(d)>>
    /\ ret = NoRet
    /\ ncalls = 1
    /\ Idle

Next ==
    \/ Entry
    \/ ShadowRay
    \/ AmbientReturn
    \/ Reflect
    \/ Transmit
    \/ Finish

Spec == Init /\ [][Next]_vars

\* render_scene after lines 392-408: the buffer is zeroed, the generator is
\* created and has not run
RenderInit ==
    /\ size \in Widths \X Heights
    /\ shader \in Shaders
    /\ buf = Zeros
    /\ rpc = "next"
    /\ row = 0
    /\ rect = <<>>
    /\ emitted = <<>>
    /\ written = <<>>
    /\ calls = [update_progress |-> 0, test_break |-> 0, end_result |-> 0]
    /\ lights = <<>>
    /\ ambient = Zero3
    /\ scene = <<>>
    /\ stack = <<>>
    /\ ret = NoRet
    /\ ncalls = 0

RenderNext ==
    \/ RenderRow
    \/ Exhausted
    \/ HandleRow
    \/ EndResult

RenderSpec == RenderInit /\ [][RenderNext]_vars

\* ------------------------------------------------------------ properties
\* the generation of the call that returned last, and what the oracle told it
RetLevel == Len(stack)
RetPrimary == scene[RetLevel].primary
RetShadow(i) == scene[RetLevel].shadow[i]
RetHit == ret.valid /\ RetPrimary.has_hit
RetLit == RetHit /\ \E i \in 1..Len(lights) : ~RetShadow(i).has_hit
RetUnlit == RetHit /\ \A i \in 1..Len(lights) : RetShadow(i).has_hit

\* the depth of the top-level call
TopDepth == IF stack = <<>> THEN ret.depth ELSE stack[1].depth

RECURSIVE Pow2(_)
Pow2(n) == IF n = 0 THEN 1 ELSE 2 * Pow2(n - 1)

\* C1: every recursive call gets its parent's depth minus 1, so the depth of a
\* nested call is an integer in 0..d-1, and the top-level call terminates.
C1_DepthsDescend ==
    \A i \in 1..Len(stack) :
        /\ stack[i].depth \in 0..TopDepth
        /\ i > 1 => /\ stack[i].depth = stack[i - 1].depth - 1
                    /\ stack[i].depth \in 0..(TopDepth - 1)
\* the steps a call at depth d can still take, its nested calls included
RECURSIVE Work(_)
Work(d) == IF d = 0 THEN Len(lights) + 2 ELSE Len(lights) + 4 + 2 * Work(d - 1)
Remaining(f) ==
    CASE f.pc = "entry" -> Work(f.depth)
      [] f.pc = "lights" -> Work(f.depth) - f.li
      [] f.pc = "reflected" -> Work(f.depth - 1) + 2
      [] f.pc = "transmitted" -> 1
RECURSIVE RankFrom(_)
RankFrom(i) == IF i > Len(stack) THEN 0 ELSE Remaining(stack[i]) + RankFrom(i + 1)
Rank == RankFrom(1)
\* a call that has not returned can always take its next step
C1_CanStep ==
    IF stack = <<>>
    THEN ret.valid
    ELSE \/ Top.pc \in {"entry", "lights"}
         \/ Top.pc \in {"reflected", "transmitted"} /\ ret.valid
C1_Terminates ==
    /\ []C1_DepthsDescend
    /\ []C1_CanStep
    /\ [][Rank' < Rank /\ Rank' >= 0]_vars
C1_Witness ==
    /\ Len(stack) = 2
    /\ stack[1].depth = MaxDepth
    /\ stack[1].pc = "transmitted"
    /\ stack[2].depth = MaxDepth - 1

\* C2: a call with depth = 0 makes no recursive call; it casts the primary ray
\* and, when that ray hits, exactly one shadow ray per light.
C2_DepthZeroLeaf ==
    /\ \A i \in 1..Len(stack) : stack[i].depth = 0 => i = Len(stack)
    /\ (ret.valid /\ ret.depth = 0) =>
          /\ ret.nreflect = 0
          /\ ret.ntransmit = 0
          /\ ret.nshadow = IF RetPrimary.has_hit THEN Len(lights) ELSE 0
C2_Witness ==
    /\ RetLit
    /\ ret.depth = 0
    /\ Len(lights) = MaxLights
    /\ RPos(RetPrimary.mat.transmission)
    /\ RPos(Reflectivity(RetPrimary.mat, Rat(Abs(RetPrimary.nd), 2)))

\* C3: a hit with no contributing light returns exactly diffuse_color *
\* ambient_color at once, with no reflection and no transmission ray even when
\* depth > 0; with a contributing light the ambient term is not added.
C3_AmbientFallback ==
    /\ RetUnlit =>
          /\ ret.color = [i \in 1..3 |->
                            RMul(RetPrimary.mat.diffuse_color[i], ambient[i])]
          /\ ret.nreflect = 0
          /\ ret.ntransmit = 0
          /\ ret.ambient_added
    /\ RetLit => ~ret.ambient_added
C3_Witness ==
    /\ RetUnlit
    /\ ret.depth > 0
    /\ Len(lights) > 0
    /\ RetPrimary.mat = Glass

\* C4: when the oracle reports no hit the call returns exactly (0,0,0) and has
\* cast no shadow, reflection or transmission ray, whatever depth and lights.
C4_NoHitBlack ==
    (ret.valid /\ ~RetPrimary.has_hit) =>
        /\ ret.color = <<RZero, RZero, RZero>>
        /\ ret.nshadow = 0
        /\ ret.nreflect = 0
        /\ ret.ntransmit = 0
C4_Witness ==
    /\ ret.valid
    /\ ~RetPrimary.has_hit
    /\ ret.depth > 0
    /\ Len(lights) > 0

\* C5: every component of the returned colour is >= 0 (the scene's colours,
\* energies and material parameters are non-negative and in range).
C5_NonNegative == ret.valid => CNonNeg(ret.color)

\* C6: the number of RT_trace_ray invocations of one top-level call with depth
\* d is at most 2^d.
C6_AtMostPow2 == ncalls <= Pow2(TopDepth)
\* C6, amended: it is at most 2^(d+1) - 1.
C6_AtMostFullTree == ncalls <= Pow2(TopDepth + 1) - 1
C6_Witness == Done /\ ret.depth = MaxDepth /\ ncalls = Pow2(MaxDepth + 1) - 1

\* C10: a call with depth > 0 that hits and has a contributing light casts
\* exactly one reflection ray, with depth-1, and a transmission ray iff
\* transmission > 0 and cos_t2 = 1 - ratio^2 (1 - cos_i^2) >= 0, where ratio is
\* ior inside the object and 1/ior outside; under total internal reflection no
\* transmission ray is cast and the transmission adds exactly zero.
C10_Ratio(p) == IF p.nd > 0 THEN p.mat.ior ELSE RDiv(ROne, p.mat.ior)
C10_CosT2(p) ==
    RSub(ROne, RMul(RMul(C10_Ratio(p), C10_Ratio(p)),
                    RSub(ROne, Rat(p.nd * p.nd, 4))))
RowMajor(i) == <<(i - 1) \div width, (i - 1) % width>>
Default == [rgb |-> <<RZero, RZero, RZero>>, a |-> 0]
Stopped == rpc \in {"end", "done", "error"}

\* C7: the generator yields 0, 1, ..., height-1 in increasing order, each once,
\* and fills the buffer in row-major order; when row y is yielded every pixel
\* of rows 0..y has been written exactly once with alpha 1 and every pixel of
\* the rows below still holds (0,0,0,0).
C7_RowsInOrder ==
    /\ Len(emitted) <= height
    /\ \A i \in 1..Len(emitted) : emitted[i] = i - 1
    /\ (rpc = "end" /\ row >= height) => Len(emitted) = height
    /\ rpc = "yielded" =>
          /\ emitted[Len(emitted)] = row
          /\ written = [i \in 1..((row + 1) * width) |-> RowMajor(i)]
          /\ \A y \in 0..height - 1, x \in 0..width - 1 :
                IF y <= row THEN buf[y + 1][x + 1].a = 1
                            ELSE buf[y + 1][x + 1] = Default
C7_Witness ==
    /\ rpc = "yielded"
    /\ row = 1
    /\ width = MaxWidth
    /\ height = MaxHeight

\* C8: test_break is polled exactly once per completed row, after that row's
\* progress update; a cancellation at the poll after row y stops the render
\* without an error, leaves the rows after y untouched, keeps rows 0..y and is
\* followed by exactly one end_result.
C8_CooperativeCancel ==
    /\ rpc # "error"
    /\ rpc \in {"next", "end", "done"} =>
          /\ calls.test_break = Len(emitted)
          /\ calls.update_progress = Len(emitted)
    /\ (Stopped /\ row < height) =>
          \A y \in 0..height - 1, x \in 0..width - 1 :
             IF y <= row THEN buf[y + 1][x + 1].a = 1
                         ELSE buf[y + 1][x + 1] = Default
    /\ calls.end_result = IF rpc = "done" THEN 1 ELSE 0
    /\ Len(written) = Len(emitted) * width

\* C9: when render_scene ends, layer.rect holds everything written to the
\* buffer, for every size and every row at which the render is cancelled.
C9_RectHoldsBuffer == rpc = "done" => rect = Flat(buf)

====
